---- MODULE Spec2Model ----
(***************************************************************************)
(* Model of calfornia_map.py: a Streamlit script that samples the          *)
(* California Housing frame, normalises MedHouseVal against the range of   *)
(* the whole frame and draws the sample on a folium map, either as         *)
(* CircleMarkers or as one HeatMap layer.                                  *)
(*                                                                         *)
(* Every widget interaction re-executes the script from top to bottom, so  *)
(* one action is one execution of the script.  Floats are modelled as      *)
(* exact fractions <<numerator, denominator>> in lowest terms.             *)
(***************************************************************************)
EXTENDS Integers, Sequences, FiniteSets, TLC

VARIABLES
    df,            \* the frame: a sequence of rows (line 55-56), never modified
    np_random,     \* state of numpy's process-wide generator
    max_show,      \* widget values (lines 62-71)
    random_state,
    mode,
    radius,
    blur,
    max_z,
    status,        \* "idle" before the first execution, "ok", or the exception
    line,          \* source line at which the last execution stopped
    df_show,       \* index labels of the sampled rows, in iteration order
    vmin,          \* value range computed at line 100
    vmax,
    scaled,        \* normalised value of each sampled row, in iteration order
    m,             \* the folium map of the last execution
    prev           \* an earlier completed execution, kept for comparison

vars == <<df, np_random, max_show, random_state, mode, radius, blur, max_z,
          status, line, df_show, vmin, vmax, scaled, m, prev>>

(***************************************************************************)
(* Bounds and input sets                                                   *)
(***************************************************************************)
MaxN == 3

Vals == {1, 2, 3}
Seeds == {0, 42}
GlobalStates == {6}
Modes == {"markers", "heatmap"}

(***************************************************************************)
(* Arithmetic helpers                                                      *)
(***************************************************************************)
Abs(x) == IF x < 0 THEN -x ELSE x

RECURSIVE GCD(_, _)
GCD(a, b) == IF b = 0 THEN a ELSE GCD(b, a % b)

\* the float a / b for b > 0, as a fraction in lowest terms
Frac(a, b) ==
    IF a = 0 THEN <<0, 1>>
    ELSE LET g == GCD(Abs(a), b) IN <<a \div g, b \div g>>

Zero == <<0, 1>>
One == <<1, 1>>
\* outcome of a float division by zero (Python raises ZeroDivisionError)
DivByZero == <<0, 0>>

Leq(x, y) == x[1] * y[2] <= y[1] * x[2]

RECURSIVE SumSeq(_)
SumSeq(s) == IF s = <<>> THEN 0 ELSE Head(s) + SumSeq(Tail(s))

SeqMin(s) == CHOOSE x \in {s[i] : i \in DOMAIN s} :
                 \A i \in DOMAIN s : x <= s[i]
SeqMax(s) == CHOOSE x \in {s[i] : i \in DOMAIN s} :
                 \A i \in DOMAIN s : x >= s[i]

Range(s) == {s[i] : i \in DOMAIN s}

(***************************************************************************)
(* The frame (lines 51-56).  Row i of the frame has index label i.         *)
(***************************************************************************)
Row(i, v) == [Latitude |-> 9 + i, Longitude |-> 19 + i, MedHouseVal |-> v]

Frames == UNION {{[i \in 1..n |-> Row(i, f[i])] : f \in [1..n -> Vals]} :
                 n \in 1..MaxN}

Column(frame, c) == [i \in DOMAIN frame |-> frame[i][c]]

\* Series.mean()
Mean(s) == Frac(SumSeq(s), Len(s))

(***************************************************************************)
(* Widgets (lines 62-71).  The frame of the source has 20640 rows and its  *)
(* slider runs from 1000 in steps of 1000 with default 5000; the model     *)
(* scales the slider down with the frame.  A slider whose default value    *)
(* lies outside [min_value, max_value] raises StreamlitAPIException.       *)
(***************************************************************************)
max_show_slider == [min_value |-> 1, step |-> 1, value |-> 2]
random_state_input == [min_value |-> 0, value |-> 42, step |-> 1]
radius_slider == [min_value |-> 3, max_value |-> 30, value |-> 12, step |-> 1]
blur_slider == [min_value |-> 3, max_value |-> 30, value |-> 18, step |-> 1]
max_z_slider == [min_value |-> 1, max_value |-> 18, value |-> 13, step |-> 1]

slider_ok(d) ==
    /\ max_show_slider.min_value <= Len(d)
    /\ max_show_slider.min_value <= max_show_slider.value
    /\ max_show_slider.value <= Len(d)

max_show_values(d) ==
    {k \in max_show_slider.min_value..Len(d) :
        (k - max_show_slider.min_value) % max_show_slider.step = 0}

InSlider(sl, x) ==
    /\ sl.min_value <= x
    /\ x <= sl.max_value
    /\ (x - sl.min_value) % sl.step = 0

RadiusChoices == {x \in {3, 12} : InSlider(radius_slider, x)}
BlurChoices == {x \in {18, 30} : InSlider(blur_slider, x)}
MaxZChoices == {x \in {1, 13} : InSlider(max_z_slider, x)}

(***************************************************************************)
(* df.sample(max_show, random_state=int(random_state)) (line 92).          *)
(* pandas builds a private generator RandomState(seed) for the call and    *)
(* takes the first k entries of a permutation of the n row positions;      *)
(* k > n without replacement raises ValueError.  The generator is modelled *)
(* by a full-period congruential generator and the permutation by a        *)
(* Fisher-Yates shuffle driven by it.                                      *)
(***************************************************************************)
RngNext(s) == (5 * s + 3) % 16
RandomState(seed) == seed % 16

RECURSIVE shuffle(_, _, _)
shuffle(p, i, s) ==
    IF i <= 1 THEN p
    ELSE LET s1 == RngNext(s)
             j == ((s1 \div 2) % i) + 1
         IN shuffle([p EXCEPT ![i] = p[j], ![j] = p[i]], i - 1, s1)

permutation(n, s) == shuffle([i \in 1..n |-> i], n, s)

RECURSIVE draws(_, _, _)
draws(n, k, s) ==
    IF k = 0 THEN <<>>
    ELSE LET s1 == RngNext(s)
         IN <<((s1 \div 2) % n) + 1>> \o draws(n, k - 1, s1)

\* faulty variant: rows drawn with replacement (replace=True)
sampleWithReplacement(n, k, seed, g) ==
    [error |-> "", rows |-> draws(n, k, RandomState(seed)), g |-> g]

\* faulty variant: the call draws from the process-wide generator and advances it
sampleGlobalState(n, k, seed, g) ==
    IF k > n THEN [error |-> "ValueError", rows |-> <<>>, g |-> g]
    ELSE [error |-> "", rows |-> SubSeq(permutation(n, g), 1, k),
          g |-> RngNext(g)]

\* faulty variant: an oversized request is clamped to the frame instead of raising
sampleClamped(n, k, seed, g) ==
    [error |-> "",
     rows |-> SubSeq(permutation(n, RandomState(seed)), 1,
                     IF k > n THEN n ELSE k),
     g |-> g]

sample(n, k, seed, g) ==
    IF k > n THEN [error |-> "ValueError", rows |-> <<>>, g |-> g]
    ELSE [error |-> "", rows |-> SubSeq(permutation(n, RandomState(seed)), 1, k),
          g |-> g]

(***************************************************************************)
(* The script's namespace ns = [df, df_show] and what lines 94-100 compute *)
(* from it.                                                                *)
(***************************************************************************)
\* the rows of df_show in iteration order (df_show.iterrows())
iterrows(ns) == [i \in DOMAIN ns.df_show |-> ns.df[ns.df_show[i]]]

\* faulty variant: the centre is taken over the sample
center_of_sample(ns) ==
    <<Mean(Column(iterrows(ns), "Latitude")),
      Mean(Column(iterrows(ns), "Longitude"))>>

center(ns) ==
    <<Mean(Column(ns.df, "Latitude")), Mean(Column(ns.df, "Longitude"))>>

NoMap == [created |-> FALSE, location |-> <<>>, zoom_start |-> 0,
          tiles |-> "", children |-> <<>>]

folium_Map(loc) == [created |-> TRUE, location |-> loc, zoom_start |-> 6,
                    tiles |-> "CartoDB positron", children |-> <<>>]

\* faulty variant: the range is taken over the sample
value_range_of_sample(ns) ==
    [vmin |-> SeqMin(Column(iterrows(ns), "MedHouseVal")),
     vmax |-> SeqMax(Column(iterrows(ns), "MedHouseVal"))]

value_range(ns) ==
    [vmin |-> SeqMin(Column(ns.df, "MedHouseVal")),
     vmax |-> SeqMax(Column(ns.df, "MedHouseVal"))]

(***************************************************************************)
(* Normalisation and colour (lines 104-108, 123-125)                       *)
(***************************************************************************)
Div(a, b) ==
    IF b = 0 THEN DivByZero
    ELSE IF b < 0 THEN Frac(-a, -b) ELSE Frac(a, b)

\* faulty variant: the scale is inverted
normInverted(x, lo, hi) == IF lo = hi THEN Zero ELSE Div(hi - x, hi - lo)

\* colors.Normalize(vmin, vmax)(x), clip=False: 0 when vmin == vmax
norm(x, lo, hi) == IF lo = hi THEN Zero ELSE Div(x - lo, hi - lo)

\* cm.get_cmap("viridis")(x) then colors.to_hex: entry int(x * 256) of the
\* 256-entry table, x = 1 mapped to the last entry, out-of-range clamped
cmap(x) ==
    IF x[1] < 0 THEN 0
    ELSE IF x[1] >= x[2] THEN 255
    ELSE (256 * x[1]) \div x[2]

\* faulty variant: the guard of line 123 is dropped
denomUnguarded(lo, hi) == hi - lo

denom(lo, hi) == IF hi - lo > 0 THEN hi - lo ELSE 1

weight(x, lo, hi) == Div(x - lo, denom(lo, hi))

(***************************************************************************)
(* Renderers (lines 107-117, 124-135)                                      *)
(***************************************************************************)
CircleMarker(r, lo, hi) ==
    LET color == cmap(norm(r.MedHouseVal, lo, hi))
    IN [type |-> "CircleMarker",
        location |-> <<r.Latitude, r.Longitude>>,
        radius |-> 3, color |-> color, fill |-> TRUE, fill_color |-> color,
        fill_opacity |-> Frac(85, 100), popup |-> r.MedHouseVal]

markers(ns, lo, hi) ==
    [i \in DOMAIN ns.df_show |-> CircleMarker(iterrows(ns)[i], lo, hi)]

\* faulty variant: the triples are emitted in reverse order
heat_data_reversed(ns, lo, hi) ==
    [i \in DOMAIN ns.df_show |->
        LET r == iterrows(ns)[Len(ns.df_show) + 1 - i]
        IN <<r.Latitude, r.Longitude, weight(r.MedHouseVal, lo, hi)>>]

heat_data(ns, lo, hi) ==
    [i \in DOMAIN ns.df_show |->
        LET r == iterrows(ns)[i]
        IN <<r.Latitude, r.Longitude, weight(r.MedHouseVal, lo, hi)>>]

HeatMap(data, r, b, z) ==
    [type |-> "HeatMap", data |-> data, radius |-> r, blur |-> b,
     max_zoom |-> z, min_opacity |-> Frac(2, 10), max_val |-> One]

\* faulty variant: two independent ifs, both layers are attached
renderBoth(md, ns, lo, hi, r, b, z) ==
    markers(ns, lo, hi) \o <<HeatMap(heat_data(ns, lo, hi), r, b, z)>>

\* faulty variant: the heatmap parameters are validated before the layer is built
renderValidated(md, ns, lo, hi, r, b, z) ==
    IF md = "markers" THEN markers(ns, lo, hi)
    ELSE IF r <= 0 \/ b <= 0 \/ z <= 0 THEN <<>>
    ELSE <<HeatMap(heat_data(ns, lo, hi), r, b, z)>>

\* the children added to the map by lines 102-136
render(md, ns, lo, hi, r, b, z) ==
    IF md = "markers" THEN markers(ns, lo, hi)
    ELSE <<HeatMap(heat_data(ns, lo, hi), r, b, z)>>

(***************************************************************************)
(* One execution of lines 91-140 on given parameter values                 *)
(***************************************************************************)
Stop(st, ln, g) ==
    [status |-> st, line |-> ln, df_show |-> <<>>, vmin |-> 0, vmax |-> 0,
     scaled |-> <<>>, m |-> NoMap, np_random |-> g]

Pipeline(d, k, seed, md, r, b, z, g) ==
    LET s == sample(Len(d), k, seed, g)
    IN IF s.error # "" THEN Stop(s.error, 92, s.g)
       ELSE
         LET ns == [df |-> d, df_show |-> s.rows]
             m0 == folium_Map(center(ns))
             vr == value_range(ns)
             rows == iterrows(ns)
             kids == render(md, ns, vr.vmin, vr.vmax, r, b, z)
             sc == [i \in DOMAIN rows |->
                      IF md = "markers"
                      THEN norm(rows[i].MedHouseVal, vr.vmin, vr.vmax)
                      ELSE weight(rows[i].MedHouseVal, vr.vmin, vr.vmax)]
             zerodiv == \E i \in DOMAIN sc : sc[i] = DivByZero
         IN IF zerodiv
            THEN [status |-> "ZeroDivisionError",
                  line |-> IF md = "markers" THEN 108 ELSE 125,
                  df_show |-> s.rows, vmin |-> vr.vmin, vmax |-> vr.vmax,
                  scaled |-> <<>>, m |-> m0, np_random |-> s.g]
            ELSE [status |-> "ok", line |-> 140,
                  df_show |-> s.rows, vmin |-> vr.vmin, vmax |-> vr.vmax,
                  scaled |-> sc,
                  m |-> [m0 EXCEPT !.children = kids],
                  np_random |-> s.g]

\* the whole script: the slider of line 62 is built first
Script(d, k, seed, md, r, b, z, g) ==
    IF ~slider_ok(d) THEN Stop("StreamlitAPIException", 62, g)
    ELSE Pipeline(d, k, seed, md, r, b, z, g)

(***************************************************************************)
(* State machine                                                           *)
(***************************************************************************)
NoPrev == [max_show |-> 0, random_state |-> 0, mode |-> "",
           df_show |-> <<>>, out |-> <<>>, location |-> <<>>]

\* what each sampled row was given on the map: its colour or its weight
Out == [i \in DOMAIN df_show |->
          IF mode = "markers" THEN m.children[i].color
          ELSE m.children[1].data[i][3]]

Snapshot == [max_show |-> max_show, random_state |-> random_state,
             mode |-> mode, df_show |-> df_show, out |-> Out,
             location |-> m.location]

Init ==
    /\ df \in Frames
    /\ np_random \in GlobalStates
    /\ max_show = max_show_slider.value
    /\ random_state = random_state_input.value
    /\ mode = "markers"
    /\ radius = radius_slider.value
    /\ blur = blur_slider.value
    /\ max_z = max_z_slider.value
    /\ status = "idle"
    /\ line = 0
    /\ df_show = <<>>
    /\ vmin = 0
    /\ vmax = 0
    /\ scaled = <<>>
    /\ m = NoMap
    /\ prev = NoPrev

Apply(res, k, seed, md, r, b, z) ==
    /\ max_show' = k
    /\ random_state' = seed
    /\ mode' = md
    /\ radius' = r
    /\ blur' = b
    /\ max_z' = z
    /\ status' = res.status
    /\ line' = res.line
    /\ df_show' = res.df_show
    /\ vmin' = res.vmin
    /\ vmax' = res.vmax
    /\ scaled' = res.scaled
    /\ m' = res.m
    /\ np_random' = res.np_random
    /\ UNCHANGED df

\* an execution of the script; the execution it replaces may be the one kept
Commit(res, k, seed, md, r, b, z) ==
    /\ Apply(res, k, seed, md, r, b, z)
    /\ prev' \in {prev} \cup (IF status = "ok" THEN {Snapshot} ELSE {})

\* the widgets exist once an execution got past line 71
Interactive == status \notin {"idle", "StreamlitAPIException"}

\* first execution, or a re-execution with unchanged widget values
Rerun ==
    Commit(Script(df, max_show, random_state, mode, radius, blur, max_z,
                  np_random),
           max_show, random_state, mode, radius, blur, max_z)

SetMaxShow(k) ==
    /\ Interactive
    /\ k \in max_show_values(df)
    /\ k # max_show
    /\ Commit(Script(df, k, random_state, mode, radius, blur, max_z, np_random),
              k, random_state, mode, radius, blur, max_z)

SetRandomState(seed) ==
    /\ Interactive
    /\ seed >= random_state_input.min_value
    /\ seed # random_state
    /\ Commit(Script(df, max_show, seed, mode, radius, blur, max_z, np_random),
              max_show, seed, mode, radius, blur, max_z)

\* the three heatmap sliders exist only in heatmap mode (line 68); a widget
\* that was not drawn loses its value and comes back with its default
SetMode(md) ==
    /\ Interactive
    /\ md # mode
    /\ Commit(Script(df, max_show, random_state, md, radius_slider.value,
                     blur_slider.value, max_z_slider.value, np_random),
              max_show, random_state, md, radius_slider.value,
              blur_slider.value, max_z_slider.value)

SetRadius(r) ==
    /\ Interactive
    /\ mode = "heatmap"
    /\ InSlider(radius_slider, r)
    /\ r # radius
    /\ Commit(Script(df, max_show, random_state, mode, r, blur, max_z, np_random),
              max_show, random_state, mode, r, blur, max_z)

SetBlur(b) ==
    /\ Interactive
    /\ mode = "heatmap"
    /\ InSlider(blur_slider, b)
    /\ b # blur
    /\ Commit(Script(df, max_show, random_state, mode, radius, b, max_z, np_random),
              max_show, random_state, mode, radius, b, max_z)

SetMaxZ(z) ==
    /\ Interactive
    /\ mode = "heatmap"
    /\ InSlider(max_z_slider, z)
    /\ z # max_z
    /\ Commit(Script(df, max_show, random_state, mode, radius, blur, z, np_random),
              max_show, random_state, mode, radius, blur, z)

Next ==
    \/ Rerun
    \/ \E k \in 1..MaxN : SetMaxShow(k)
    \/ \E seed \in Seeds : SetRandomState(seed)
    \/ \E md \in Modes : SetMode(md)
    \/ \E r \in RadiusChoices : SetRadius(r)
    \/ \E b \in BlurChoices : SetBlur(b)
    \/ \E z \in MaxZChoices : SetMaxZ(z)

Spec == Init /\ [][Next]_vars

(***************************************************************************)
(* The pipeline of lines 91-140 on its own, called with parameter values   *)
(* that need not come from the widgets: any sample size from 1 up to one   *)
(* more than the frame has rows, any integers for the heatmap parameters.  *)
(***************************************************************************)
CoreSizes == 1..(MaxN + 1)
CoreParams == {<<0, 18, 13>>, <<12, -1, 13>>, <<12, 18, 0>>, <<12, 18, 13>>,
               <<3, 30, 1>>}

RenderMarkers(k, seed) ==
    /\ Apply(Pipeline(df, k, seed, "markers", radius_slider.value,
                      blur_slider.value, max_z_slider.value, np_random),
             k, seed, "markers", radius_slider.value, blur_slider.value,
             max_z_slider.value)
    /\ UNCHANGED prev

RenderHeatmap(k, seed, p) ==
    /\ Apply(Pipeline(df, k, seed, "heatmap", p[1], p[2], p[3], np_random),
             k, seed, "heatmap", p[1], p[2], p[3])
    /\ UNCHANGED prev

NextCore ==
    \/ \E k \in CoreSizes, seed \in Seeds : RenderMarkers(k, seed)
    \/ \E k \in CoreSizes, seed \in Seeds, p \in CoreParams :
           RenderHeatmap(k, seed, p)

SpecCore == Init /\ [][NextCore]_vars

(***************************************************************************)
(* Properties                                                              *)
(***************************************************************************)
Ran == status \notin {"idle", "StreamlitAPIException"}
Values == Range(Column(df, "MedHouseVal"))
AllEqual == Cardinality(Values) = 1
ScenarioA == <<Row(1, 1), Row(2, 2), Row(3, 3)>>
HeatLayer == m.children[1]

\* C1: for every sample size k with 1 <= k <= |df| and every seed, the sample
\* has exactly k rows, each a row of the frame, and no row twice.
C1_SampleWithoutReplacement ==
    (Ran /\ 1 <= max_show /\ max_show <= Len(df)) =>
        /\ status = "ok"
        /\ Len(df_show) = max_show
        /\ \A i \in DOMAIN df_show : df_show[i] \in DOMAIN df
        /\ \A i, j \in DOMAIN df_show : i # j => df_show[i] # df_show[j]

C1_Witness ==
    /\ status = "ok"
    /\ Len(df) = 3
    /\ max_show = 2
    /\ Len(df_show) = 2

\* C2: an execution with the same frame, sample size and seed as an earlier
\* one selects the same rows, whatever was executed in between, and the
\* process-wide generator state is never touched.
C2_SampleDeterministic ==
    /\ np_random \in GlobalStates
    /\ (status = "ok" /\ prev # NoPrev /\ prev.max_show = max_show
            /\ prev.random_state = random_state)
        => Range(prev.df_show) = Range(df_show)

C2_Witness ==
    /\ status = "ok"
    /\ prev # NoPrev
    /\ prev.max_show = max_show
    /\ prev.random_state = random_state
    /\ prev.mode # mode
    /\ max_show < Len(df)

\* C3: when the frame has max > min, the normalised value of a sampled row
\* holding the minimum is 0, of one holding the maximum is 1, and rows with
\* a <= b have normalised values in the same order, for heatmap weights
\* and for the marker normalisation (and the colour index derived from it).
C3_NormalizeMonotonic ==
    (status = "ok" /\ ~AllEqual) =>
        /\ \A i \in DOMAIN df_show :
              LET v == df[df_show[i]].MedHouseVal
                  x == IF mode = "heatmap" THEN HeatLayer.data[i][3]
                       ELSE scaled[i]
              IN /\ (\A w \in Values : v <= w) => x = Zero
                 /\ (\A w \in Values : v >= w) => x = One
                 /\ mode = "markers" =>
                       /\ (x = Zero => m.children[i].color = 0)
                       /\ (x = One => m.children[i].color = 255)
        /\ \A i, j \in DOMAIN df_show :
              df[df_show[i]].MedHouseVal <= df[df_show[j]].MedHouseVal =>
                 IF mode = "heatmap"
                 THEN Leq(HeatLayer.data[i][3], HeatLayer.data[j][3])
                 ELSE /\ Leq(scaled[i], scaled[j])
                      /\ m.children[i].color <= m.children[j].color

C3_Witness ==
    /\ status = "ok"
    /\ mode = "markers"
    /\ Values = {1, 2, 3}
    /\ Len(df_show) = 3
    /\ Range(scaled) = {Zero, <<1, 2>>, One}

\* C4: when all values of the frame are equal, the execution completes (no
\* ZeroDivisionError) and every sampled row's normalised value, hence every
\* heatmap weight, is 0.
C4_DegenerateRange ==
    (Ran /\ AllEqual /\ max_show <= Len(df)) =>
        /\ status = "ok"
        /\ \A i \in DOMAIN scaled : scaled[i] = Zero
        /\ mode = "heatmap" =>
              \A i \in DOMAIN HeatLayer.data : HeatLayer.data[i][3] = Zero

C4_Witness ==
    /\ status = "ok"
    /\ AllEqual
    /\ Len(df) >= 2
    /\ mode = "heatmap"
    /\ Len(HeatLayer.data) >= 2

\* C5: vmin and vmax are the minimum and maximum over the whole frame; a row
\* that is in the samples of two executions of the same mode gets the same
\* weight or colour in both, and every normalised value lies in [0, 1].
C5_RangeOverWholeFrame ==
    status = "ok" =>
        /\ vmin \in Values /\ \A w \in Values : vmin <= w
        /\ vmax \in Values /\ \A w \in Values : vmax >= w
        /\ \A i \in DOMAIN scaled : Leq(Zero, scaled[i]) /\ Leq(scaled[i], One)
        /\ (prev # NoPrev /\ prev.mode = mode) =>
              \A i \in DOMAIN df_show, j \in DOMAIN prev.df_show :
                 df_show[i] = prev.df_show[j] => Out[i] = prev.out[j]

C5_Witness ==
    /\ status = "ok"
    /\ prev # NoPrev
    /\ prev.mode = mode
    /\ prev.max_show # max_show
    /\ prev.random_state # random_state
    /\ Range(df_show) \cap Range(prev.df_show) # {}
    /\ \E i \in DOMAIN df_show :
          /\ vmin < df[df_show[i]].MedHouseVal
          /\ \A j \in DOMAIN df_show :
                df[df_show[i]].MedHouseVal <= df[df_show[j]].MedHouseVal

\* C6: a completed execution has a newly created map whose children are the
\* output of exactly one renderer: in marker mode one CircleMarker per
\* sampled row and no HeatMap, in heatmap mode one HeatMap and no CircleMarker.
C6_ExactlyOneRenderer ==
    status = "ok" =>
        /\ m.created
        /\ m.children # <<>>
        /\ mode = "markers" =>
              /\ Len(m.children) = Len(df_show)
              /\ \A i \in DOMAIN m.children : m.children[i].type = "CircleMarker"
        /\ mode = "heatmap" =>
              /\ Len(m.children) = 1
              /\ m.children[1].type = "HeatMap"

C6_Witness ==
    /\ status = "ok"
    /\ mode = "heatmap"
    /\ prev.mode = "markers"
    /\ Len(m.children) = 1
    /\ Len(prev.df_show) >= 2

\* C7: the map centre is the arithmetic mean of the latitudes and of the
\* longitudes of all rows of the frame, the same in every execution
\* (rows (10,20),(11,21),(12,22) give (11,21)).
C7_CenterIsFrameMean ==
    status = "ok" =>
        /\ m.location[1][1] * Len(df) =
              m.location[1][2] * SumSeq(Column(df, "Latitude"))
        /\ m.location[2][1] * Len(df) =
              m.location[2][2] * SumSeq(Column(df, "Longitude"))
        /\ m.location[1][2] > 0 /\ m.location[2][2] > 0
        /\ prev # NoPrev => prev.location = m.location
        /\ df = ScenarioA => m.location = <<<<11, 1>>, <<21, 1>>>>

C7_Witness ==
    /\ status = "ok"
    /\ df = ScenarioA
    /\ max_show = 1
    /\ prev # NoPrev
    /\ prev.max_show = 3
    /\ prev.mode # mode
    /\ m.location = <<<<11, 1>>, <<21, 1>>>>

C10_OneOutputPerRow ==
    status = "ok" =>
        IF mode = "markers"
        THEN /\ Len(m.children) = Len(df_show)
             /\ \A i \in DOMAIN df_show :
                   m.children[i].location =
                      <<df[df_show[i]].Latitude, df[df_show[i]].Longitude>>
        ELSE /\ Len(HeatLayer.data) = Len(df_show)
             /\ \A i \in DOMAIN df_show :
                   /\ Len(HeatLayer.data[i]) = 3
                   /\ HeatLayer.data[i][1] = df[df_show[i]].Latitude
                   /\ HeatLayer.data[i][2] = df[df_show[i]].Longitude

C10_Witness ==
    /\ status = "ok"
    /\ mode = "heatmap"
    /\ Len(df_show) >= 2
    /\ df_show[1] > df_show[2]
    /\ HeatLayer.data[1][1] > HeatLayer.data[2][1]

====
